---------------------------- MODULE Spec2Model ----------------------------
(***************************************************************************)
(* InstaExpand: the session state of App (src/App.tsx), the upload widget  *)
(* (src/unnamed/part_000, ImageUploader), the ratio picker and Button, and *)
(* the gemini service (blobToBase64, generateExpandedImage; second half of *)
(* src/components/RatioSelector.tsx).                                      *)
(*                                                                         *)
(* A step is one run of an event handler up to its next await, or the      *)
(* continuation of a handler after its await settles.  React re-renders    *)
(* between two events, so a handler reads the state of the latest render   *)
(* and a continuation keeps the values its handler captured.               *)
(***************************************************************************)
EXTENDS Integers, Sequences, FiniteSets, Bags, TLC

\* Bounds of the model.
MaxUploads == 2      \* files chosen during a session
MaxRequests == 2     \* generateContent calls in flight at a time
MaxSelects == 1      \* openSelectKey flows open at a time
MaxLen == 3          \* bytes of a blob given to the codec

(***************************************************************************)
(* JavaScript values.                                                      *)
(***************************************************************************)
Null == [null |-> TRUE]
Undefined == [undefined |-> TRUE]
Str(s) == [str |-> s]

\* !v for the values the handlers test: null, undefined and "" are falsy.
Truthy(v) == v # Null /\ v # Undefined /\ v # Str(<<>>)

\* String.prototype.includes on token sequences.
Includes(s, sub) ==
    \E i \in 0..(Len(s) - Len(sub)) : SubSeq(s, i + 1, i + Len(sub)) = sub

\* String.prototype.split(sep): the pieces between the occurrences of sep.
RECURSIVE Split(_, _)
Split(s, sep) ==
    IF \A i \in 1..Len(s) : s[i] # sep
    THEN <<s>>
    ELSE LET i == CHOOSE k \in 1..Len(s) :
                      s[k] = sep /\ \A j \in 1..(k - 1) : s[j] # sep
         IN  <<SubSeq(s, 1, i - 1)>> \o Split(SubSeq(s, i + 1, Len(s)), sep)

\* pieces[n] with a JavaScript (0-based) index: undefined past the end.
At(pieces, n) == IF n + 1 <= Len(pieces) THEN Str(pieces[n + 1]) ELSE Undefined

(***************************************************************************)
(* types (src/App.tsx, 262-273)                                            *)
(***************************************************************************)
AspectRatio == {"1:1", "3:4", "9:16"}
PORTRAIT == "3:4"
GenerationStatus == {"idle", "generating", "success", "error"}

(***************************************************************************)
(* The codec: FileReader.readAsDataURL and blobToBase64.                   *)
(***************************************************************************)
B64 == <<"A", "B", "C", "D", "E", "F", "G", "H", "I", "J", "K", "L", "M",
         "N", "O", "P", "Q", "R", "S", "T", "U", "V", "W", "X", "Y", "Z",
         "a", "b", "c", "d", "e", "f", "g", "h", "i", "j", "k", "l", "m",
         "n", "o", "p", "q", "r", "s", "t", "u", "v", "w", "x", "y", "z",
         "0", "1", "2", "3", "4", "5", "6", "7", "8", "9", "+", "/">>

\* Base64 of a byte sequence, three bytes to four characters, "=" padded.
RECURSIVE Base64(_)
Base64(bytes) ==
    IF Len(bytes) = 0 THEN <<>>
    ELSE IF Len(bytes) = 1 THEN
        LET n == bytes[1] * 65536
        IN  <<B64[(n \div 262144) + 1], B64[((n \div 4096) % 64) + 1], "=", "=">>
    ELSE IF Len(bytes) = 2 THEN
        LET n == bytes[1] * 65536 + bytes[2] * 256
        IN  <<B64[(n \div 262144) + 1], B64[((n \div 4096) % 64) + 1],
              B64[((n \div 64) % 64) + 1], "=">>
    ELSE
        LET n == bytes[1] * 65536 + bytes[2] * 256 + bytes[3]
        IN  <<B64[(n \div 262144) + 1], B64[((n \div 4096) % 64) + 1],
              B64[((n \div 64) % 64) + 1], B64[(n % 64) + 1]>>
            \o Base64(SubSeq(bytes, 4, Len(bytes)))

\* reader.result after a successful readAsDataURL: "data:<type>;base64,<data>".
readAsDataURL(blob) == <<"data:", blob.type, ";base64", ",">> \o Base64(blob.bytes)

\* A codec that resolves with reader.result as it is, prefix included.
blobToBase64_KeepsPrefix(blob) ==
    IF blob.readable
    THEN [ok |-> TRUE, value |-> Str(readAsDataURL(blob))]
    ELSE [ok |-> FALSE]

\* What the promise of blobToBase64 settles to.  The error event comes before
\* loadend, so an unreadable blob rejects; otherwise onloadend resolves with
\* the text after the first comma.
blobToBase64(blob) ==
    IF blob.readable
    THEN [ok |-> TRUE, value |-> At(Split(readAsDataURL(blob), ","), 1)]
    ELSE [ok |-> FALSE]

\* The files the user picks from.
Files ==
    { [bytes |-> <<>>, type |-> "image/png", readable |-> TRUE],
      [bytes |-> <<255, 216, 255, 224>>, type |-> "image/jpeg", readable |-> TRUE],
      [bytes |-> <<137, 80>>, type |-> "image/png", readable |-> FALSE] }

(***************************************************************************)
(* The generation adapter.                                                 *)
(***************************************************************************)
Marker == <<"Requested", "entity", "was", "not", "found">>
NoImageMsg == <<"No", "image", "data", "found", "in", "response">>
FallbackMsg == <<"Something", "went", "wrong.", "Please", "try", "again.">>
KeyIssueMsg == <<"API", "Key", "issue.", "Please", "select", "your", "key", "again.">>
SelectKeyMsg == <<"Failed", "to", "select", "API", "key.", "Please", "try", "again.">>
ProcessMsg == <<"Failed", "to", "process", "image.", "Please", "try", "another", "one.">>

TextPart == [text |-> TRUE]
ImagePart(d) == [inlineData |-> [data |-> d]]
HasInlineData(part) == "inlineData" \in DOMAIN part

\* What ai.models.generateContent settles to: a thrown error with its message
\* (an empty message stands for an error without one), or the parts of the
\* first candidate (no candidate at all reads as no parts).
Responses ==
    { [throws |-> TRUE, message |-> <<"404", "Requested", "entity", "was", "not", "found", ".">>],
      [throws |-> TRUE, message |-> <<"quota", "exceeded">>],
      [throws |-> TRUE, message |-> <<>>],
      [throws |-> FALSE, parts |-> <<>>],
      [throws |-> FALSE, parts |-> <<TextPart>>],
      [throws |-> FALSE, parts |-> <<TextPart, ImagePart(<<"Q", "Q", "=", "=">>),
                                     ImagePart(<<"Q", "g", "=", "=">>)>>],
      [throws |-> FALSE, parts |-> <<ImagePart(<<"Q", "g", "=", "=">>)>>] }

\* A loop that falls off its end without the throw: the function returns
\* undefined.
RECURSIVE ExtractImage_NoThrow(_)
ExtractImage_NoThrow(parts) ==
    IF parts = <<>> THEN [ok |-> TRUE, value |-> Undefined]
    ELSE IF HasInlineData(Head(parts))
         THEN [ok |-> TRUE,
               value |-> Str(<<"data:image/png;base64,">> \o Head(parts).inlineData.data)]
         ELSE ExtractImage_NoThrow(Tail(parts))

RECURSIVE ExtractImage_Last(_)
ExtractImage_Last(parts) ==
    IF parts = <<>> THEN [ok |-> FALSE, message |-> NoImageMsg]
    ELSE IF HasInlineData(parts[Len(parts)])
         THEN [ok |-> TRUE,
               value |-> Str(<<"data:image/png;base64,">>
                             \o parts[Len(parts)].inlineData.data)]
         ELSE ExtractImage_Last(SubSeq(parts, 1, Len(parts) - 1))

\* The loop over the parts: the first part with inline data, as a data URI.
RECURSIVE ExtractImage(_)
ExtractImage(parts) ==
    IF parts = <<>> THEN [ok |-> FALSE, message |-> NoImageMsg]
    ELSE IF HasInlineData(Head(parts))
         THEN [ok |-> TRUE,
               value |-> Str(<<"data:image/png;base64,">> \o Head(parts).inlineData.data)]
         ELSE ExtractImage(Tail(parts))

\* generateExpandedImage once the remote call has settled with resp: the
\* catch block logs and rethrows, so a thrown error reaches the caller as is.
generateExpandedImage(imageBase64, targetRatio, resp) ==
    IF resp.throws
    THEN [ok |-> FALSE, message |-> resp.message]
    ELSE ExtractImage(resp.parts)

(***************************************************************************)
(* State.                                                                  *)
(***************************************************************************)
VARIABLES
    apiKeySet,            \* useState(false)
    originalImage,        \* Null or the object URL of the uploaded file
    originalImageBase64,  \* Null or the encoded image
    generatedImage,       \* Null or the data URI of the result
    selectedRatio,
    status,
    errorMsg,
    aistudio,             \* whether the host provides window.aistudio
    keyCheck,             \* the start-up hasSelectedApiKey call
    selecting,            \* openSelectKey flows not yet settled
    objectUrls,           \* object URLs created and not revoked
    reading,              \* the bag of blobs of the blobToBase64 calls not yet settled
    requests,             \* the bag of generateContent calls not yet settled
    last                  \* the step taken last and what it started from

session == <<apiKeySet, originalImage, originalImageBase64, generatedImage,
             selectedRatio, status, errorMsg>>
host == <<aistudio, keyCheck, selecting>>
vars == <<apiKeySet, originalImage, originalImageBase64, generatedImage,
          selectedRatio, status, errorMsg, aistudio, keyCheck, selecting, objectUrls, reading, requests, last>>

\* Records the step and the state it was taken in.
Mark(op) ==
    last' = [op |-> op, pre |-> status,
             preGen |-> generatedImage # Null, preErr |-> errorMsg # Null]

\* The same for the continuation of handleGenerate, with the request it had
\* sent, what the remote call settled to, and the credential state before.
MarkSettled(req, resp) ==
    last' = [op |-> "generateSettled", pre |-> status,
             preGen |-> generatedImage # Null, preErr |-> errorMsg # Null,
             preKey |-> apiKeySet, req |-> req, resp |-> resp]

Init ==
    /\ apiKeySet = FALSE
    /\ originalImage = Null
    /\ originalImageBase64 = Null
    /\ generatedImage = Null
    /\ selectedRatio = PORTRAIT
    /\ status = "idle"
    /\ errorMsg = Null
    /\ aistudio \in BOOLEAN
    /\ keyCheck = IF aistudio THEN "pending" ELSE "skipped"
    /\ selecting = 0
    /\ objectUrls = {}
    /\ reading = EmptyBag
    /\ requests = EmptyBag
    /\ last = [op |-> "mount", pre |-> "idle", preGen |-> FALSE, preErr |-> FALSE]


(***************************************************************************)
(* What is on screen (the render of App, ImageUploader, RatioSelector and  *)
(* Button): a handler runs only through a control that is rendered and     *)
(* enabled.                                                                *)
(***************************************************************************)
\* App returns the "Connect API Key" screen alone while the key is not set.
GateScreen == ~apiKeySet
MainScreen == apiKeySet

\* A Button that forgets isLoading.
Button_disabled_IgnoresLoading(disabled, isLoading) == disabled

\* <button disabled={disabled || isLoading}>
Button_disabled(disabled, isLoading) == disabled \/ isLoading

\* The header's Reset button: rendered with an original image, never disabled.
ResetButton == MainScreen /\ originalImage # Null

\* ImageUploader shows the file input only without a current image, and
\* disables it while generating.
FileInput == MainScreen /\ originalImage = Null /\ status # "generating"

RatioButtons_AlwaysEnabled == MainScreen /\ originalImage # Null

\* RatioSelector is rendered with an original image; its buttons are disabled
\* while generating.
RatioButtons == MainScreen /\ originalImage # Null /\ status # "generating"

\* The Generate button: rendered with an original image and no result, and
\* disabled through isLoading while generating.
GenerateButton ==
    /\ MainScreen
    /\ originalImage # Null
    /\ generatedImage = Null
    /\ ~Button_disabled(FALSE, status = "generating")

\* The result section with Download and "Try Different Ratio".
ResultSection == MainScreen /\ generatedImage # Null

(***************************************************************************)
(* The credential: checkApiKey on mount and handleSelectKey.               *)
(***************************************************************************)
\* hasSelectedApiKey settles: setApiKeySet(hasKey), or the catch logs.
checkApiKey ==
    /\ keyCheck = "pending"
    /\ keyCheck' = "done"
    /\ \E hasKey \in BOOLEAN, thrown \in BOOLEAN :
          apiKeySet' = IF thrown THEN apiKeySet ELSE hasKey
    /\ Mark("checkApiKey")
    /\ UNCHANGED <<originalImage, originalImageBase64, generatedImage,
                   selectedRatio, status, errorMsg, aistudio, selecting, objectUrls, reading, requests>>

\* handleSelectKey up to its await: without window.aistudio it does nothing.
handleSelectKey ==
    /\ GateScreen
    /\ selecting < MaxSelects
    /\ selecting' = IF aistudio THEN selecting + 1 ELSE selecting
    /\ Mark("selectKey")
    /\ UNCHANGED <<session, aistudio, keyCheck, objectUrls, reading, requests>>

\* openSelectKey settles: setApiKeySet(true), or the catch sets the message.
handleSelectKeySettled ==
    /\ selecting > 0
    /\ selecting' = selecting - 1
    /\ \E resolved \in BOOLEAN :
          IF resolved
          THEN apiKeySet' = TRUE /\ UNCHANGED errorMsg
          ELSE errorMsg' = Str(SelectKeyMsg) /\ UNCHANGED apiKeySet
    /\ Mark("selectKeySettled")
    /\ UNCHANGED <<originalImage, originalImageBase64, generatedImage,
                   selectedRatio, status, aistudio, keyCheck,
                   objectUrls, reading, requests>>

(***************************************************************************)
(* Upload and reset.                                                       *)
(***************************************************************************)
\* URL.createObjectURL(file): a fresh URL, known here by its number and the
\* blob it resolves to.
createObjectURL(file) == [id |-> Cardinality(objectUrls) + 1, blob |-> file]

\* A bag with one more, or one less, copy of e.
Put(bag, e) == bag (+) SetToBag({e})
Take(bag, e) == bag (-) SetToBag({e})

\* An upload that leaves the previous result in place.
handleImageUpload_KeepsResult(file) ==
    LET url == createObjectURL(file) IN
    /\ objectUrls' = objectUrls \cup {url.id}
    /\ originalImage' = [url |-> url]
    /\ errorMsg' = Null
    /\ reading' = Put(reading, file)
    /\ UNCHANGED <<apiKeySet, originalImageBase64, generatedImage,
                   selectedRatio, status, host, requests>>

\* handleImageUpload up to its await.
handleImageUpload(file) ==
    LET url == createObjectURL(file) IN
    /\ objectUrls' = objectUrls \cup {url.id}
    /\ originalImage' = [url |-> url]
    /\ generatedImage' = Null
    /\ errorMsg' = Null
    /\ reading' = Put(reading, file)
    /\ UNCHANGED <<apiKeySet, originalImageBase64, selectedRatio, status,
                   host, requests>>

\* handleFileChange of the file input.
handleFileChange ==
    /\ FileInput
    /\ Cardinality(objectUrls) < MaxUploads
    /\ \E file \in Files : handleImageUpload(file)
    /\ Mark("upload")

\* handleImageUpload after its await: setOriginalImageBase64(b64), or the
\* catch sets the message.
handleImageUploadSettled(file) ==
    LET b64 == blobToBase64(file) IN
    /\ reading' = Take(reading, file)
    /\ IF b64.ok
       THEN originalImageBase64' = b64.value /\ UNCHANGED errorMsg
       ELSE errorMsg' = Str(ProcessMsg) /\ UNCHANGED originalImageBase64
    /\ UNCHANGED <<apiKeySet, originalImage, generatedImage, selectedRatio,
                   status, host, objectUrls, requests>>

blobToBase64Settled ==
    /\ \E file \in BagToSet(reading) : handleImageUploadSettled(file)
    /\ Mark("uploadSettled")

\* A reset that leaves the encoded image in place.
handleClear_KeepsEncoded ==
    /\ originalImage' = Null
    /\ generatedImage' = Null
    /\ status' = "idle"
    /\ UNCHANGED <<apiKeySet, originalImageBase64, selectedRatio, errorMsg,
                   host, objectUrls, reading, requests>>

handleClear ==
    /\ originalImage' = Null
    /\ originalImageBase64' = Null
    /\ generatedImage' = Null
    /\ status' = "idle"
    /\ UNCHANGED <<apiKeySet, selectedRatio, errorMsg, host, objectUrls,
                   reading, requests>>

\* A click on Reset (the uploader's close button calls handleClear too, but
\* is enabled only where Reset is).
ClickReset ==
    /\ ResetButton
    /\ handleClear
    /\ Mark("reset")

(***************************************************************************)
(* Ratio, generation and result.                                           *)
(***************************************************************************)
\* onSelect={setSelectedRatio}
ClickRatio ==
    /\ RatioButtons
    /\ \E ratio \in AspectRatio : selectedRatio' = ratio
    /\ Mark("selectRatio")
    /\ UNCHANGED <<apiKeySet, originalImage, originalImageBase64,
                   generatedImage, status, errorMsg, host, objectUrls,
                   reading, requests>>

\* A handleGenerate without its first line.
handleGenerate_NoGuard ==
    /\ status' = "generating"
    /\ errorMsg' = Null
    /\ requests' = Put(requests, [data |-> originalImageBase64,
                                   ratio |-> selectedRatio])
    /\ UNCHANGED <<apiKeySet, originalImage, originalImageBase64,
                   generatedImage, selectedRatio>>

\* handleGenerate up to its await: the request takes the encoded image and
\* the ratio of the render the click happened in.
handleGenerate ==
    IF ~Truthy(originalImageBase64) \/ ~apiKeySet
    THEN UNCHANGED <<session, requests>>
    ELSE /\ status' = "generating"
         /\ errorMsg' = Null
         /\ requests' = Put(requests, [data |-> originalImageBase64,
                                        ratio |-> selectedRatio])
         /\ UNCHANGED <<apiKeySet, originalImage, originalImageBase64,
                        generatedImage, selectedRatio>>

\* The user goes for the Generate button: the handler runs if the button is
\* there and enabled, and nothing happens otherwise.
ClickGenerate ==
    /\ BagCardinality(requests) < MaxRequests
    /\ IF GenerateButton
       THEN handleGenerate
       ELSE UNCHANGED <<session, requests>>
    /\ Mark("generate")
    /\ UNCHANGED <<host, objectUrls, reading>>

\* A catch block without setApiKeySet(false).
handleGenerateSettled_NoDemotion(req, resp) ==
    LET result == generateExpandedImage(req.data, req.ratio, resp) IN
    /\ requests' = Take(requests, req)
    /\ IF result.ok
       THEN /\ generatedImage' = result.value
            /\ status' = "success"
            /\ UNCHANGED <<apiKeySet, errorMsg>>
       ELSE /\ status' = "error"
            /\ errorMsg' = Str(IF result.message # <<>> /\ Includes(result.message, Marker)
                               THEN KeyIssueMsg
                               ELSE IF result.message # <<>>
                                    THEN result.message ELSE FallbackMsg)
            /\ UNCHANGED <<apiKeySet, generatedImage>>
    /\ UNCHANGED <<originalImage, originalImageBase64, selectedRatio, host,
                   objectUrls, reading>>

handleGenerateSettled_StaysGenerating(req, resp) ==
    LET result == generateExpandedImage(req.data, req.ratio, resp) IN
    /\ requests' = Take(requests, req)
    /\ IF result.ok
       THEN /\ generatedImage' = result.value
            /\ status' = "success"
            /\ UNCHANGED <<apiKeySet, errorMsg>>
       ELSE /\ IF result.message # <<>> /\ Includes(result.message, Marker)
               THEN /\ apiKeySet' = FALSE
                    /\ errorMsg' = Str(KeyIssueMsg)
               ELSE /\ errorMsg' = Str(IF result.message # <<>>
                                       THEN result.message ELSE FallbackMsg)
                    /\ UNCHANGED apiKeySet
            /\ UNCHANGED <<generatedImage, status>>
    /\ UNCHANGED <<originalImage, originalImageBase64, selectedRatio, host,
                   objectUrls, reading>>

\* handleGenerate after its await, the remote call having settled with resp.
handleGenerateSettled(req, resp) ==
    LET result == generateExpandedImage(req.data, req.ratio, resp) IN
    /\ requests' = Take(requests, req)
    /\ IF result.ok
       THEN /\ generatedImage' = result.value
            /\ status' = "success"
            /\ UNCHANGED <<apiKeySet, errorMsg>>
       ELSE /\ status' = "error"
            /\ IF result.message # <<>> /\ Includes(result.message, Marker)
               THEN /\ apiKeySet' = FALSE
                    /\ errorMsg' = Str(KeyIssueMsg)
               ELSE /\ errorMsg' = Str(IF result.message # <<>>
                                       THEN result.message ELSE FallbackMsg)
                    /\ UNCHANGED apiKeySet
            /\ UNCHANGED generatedImage
    /\ UNCHANGED <<originalImage, originalImageBase64, selectedRatio, host,
                   objectUrls, reading>>

generateContentSettled ==
    \E req \in BagToSet(requests), resp \in Responses :
        /\ handleGenerateSettled(req, resp)
        /\ MarkSettled(req, resp)

\* "Try Different Ratio": setGeneratedImage(null)
ClickTryDifferentRatio ==
    /\ ResultSection
    /\ generatedImage' = Null
    /\ Mark("discardResult")
    /\ UNCHANGED <<apiKeySet, originalImage, originalImageBase64,
                   selectedRatio, status, errorMsg, host, objectUrls,
                   reading, requests>>

\* handleDownload: a link is clicked; no state of the session changes.
handleDownload ==
    /\ ResultSection
    /\ Mark("download")
    /\ UNCHANGED <<session, host, objectUrls, reading, requests>>

Next ==
    \/ checkApiKey
    \/ handleSelectKey
    \/ handleSelectKeySettled
    \/ handleFileChange
    \/ blobToBase64Settled
    \/ ClickReset
    \/ ClickRatio
    \/ ClickGenerate
    \/ generateContentSettled
    \/ ClickTryDifferentRatio
    \/ handleDownload

Spec == Init /\ [][Next]_vars

\* The remote call eventually returns or fails: a pending generateContent
\* promise settles and the continuation of handleGenerate runs.
LiveSpec == Spec /\ WF_vars(generateContentSettled)

(***************************************************************************)
(* The codec on its own: the session right after the upload of any blob of *)
(* up to MaxLen bytes, and the read of that blob settling.                 *)
(***************************************************************************)
ByteSample == {0, 1, 63, 128, 255}

Blobs ==
    [ bytes : UNION { [1..n -> ByteSample] : n \in 0..MaxLen },
      type : {"image/png", "image/jpeg"},
      readable : BOOLEAN ]

\* The key is set, a blob has been chosen and handleImageUpload waits for
\* blobToBase64.
CodecInit ==
    \E blob \in Blobs :
        /\ apiKeySet = TRUE
        /\ originalImage = [url |-> [id |-> 1, blob |-> blob]]
        /\ originalImageBase64 = Null
        /\ generatedImage = Null
        /\ selectedRatio = PORTRAIT
        /\ status = "idle"
        /\ errorMsg = Null
        /\ aistudio = TRUE
        /\ keyCheck = "done"
        /\ selecting = 0
        /\ objectUrls = {1}
        /\ reading = SetToBag({blob})
        /\ requests = EmptyBag
        /\ last = [op |-> "upload", pre |-> "idle", preGen |-> FALSE, preErr |-> FALSE]

CodecNext == blobToBase64Settled

CodecSpec == CodecInit /\ [][CodecNext]_vars

TypeOK ==
    /\ apiKeySet \in BOOLEAN
    /\ status \in GenerationStatus
    /\ selectedRatio \in AspectRatio
    /\ selecting \in 0..MaxSelects
    /\ BagCardinality(requests) <= MaxRequests
    /\ Cardinality(objectUrls) <= MaxUploads

(***************************************************************************)
(* Properties.                                                             *)
(***************************************************************************)
InFlight == BagCardinality(requests)
Sends == BagCardinality(requests') > BagCardinality(requests)

\* C1: at most one generation request is in flight in every reachable state.
C1_AtMostOneInFlight == InFlight <= 1

\* C2: a generated image is held only while status is success.
C2_GeneratedOnlyInSuccess == generatedImage # Null => status = "success"

\* C3: an error message is held only while status is error.
C3_ErrorOnlyInError == errorMsg # Null => status = "error"

\* C4: the encoded image, when present, is the encoding of the current
\* original image, and it is absent right after a reset and right after an
\* upload (until that upload's own encoding has settled).
C4_EncodedIsOfCurrentOriginal ==
    /\ originalImageBase64 # Null =>
          /\ originalImage # Null
          /\ LET b64 == blobToBase64(originalImage.url.blob)
             IN  b64.ok /\ originalImageBase64 = b64.value
    /\ last.op \in {"reset", "upload"} => originalImageBase64 = Null

\* C5: upload is atomic with respect to generation: a request is sent only
\* with the encoding of the current original image, whose codec run has
\* succeeded; a failed codec run reports an error; a successful one leaves
\* both the original image and its encoded form set.
C5_UploadAtomic ==
    [][ /\ Sends =>
              /\ originalImage # Null
              /\ LET b64 == blobToBase64(originalImage.url.blob)
                 IN  b64.ok /\ originalImageBase64 = b64.value
        /\ last'.op = "uploadSettled" =>
              \/ errorMsg' = Str(ProcessMsg)
              \/ originalImage' # Null /\ originalImageBase64' # Null
      ]_vars

\* C6: right after reset(), from whatever status, status is idle and the
\* original, the encoded and the generated image are cleared.
C6_ResetClearsImages ==
    last.op = "reset" =>
        /\ status = "idle"
        /\ originalImage = Null
        /\ originalImageBase64 = Null
        /\ generatedImage = Null

C6_ResetWhileGenerating ==
    last.op = "reset" /\ last.pre = "generating" /\ InFlight > 0

\* C7: right after reset() the error message is null.
C7_ResetClearsError == last.op = "reset" => errorMsg = Null

\* C8: generate() while status is generating changes no session field and
\* sends no request.
C8_GenerateWhileGeneratingNoOp ==
    [][ (status = "generating" /\ last'.op = "generate") =>
            UNCHANGED <<session, requests>> ]_vars

C8_ClickedWhileGenerating ==
    /\ last.op = "generate"
    /\ last.pre = "generating"
    /\ Truthy(originalImageBase64)
    /\ originalImage # Null
    /\ InFlight = 1

\* C9: a request is sent only with an encoded image present (an empty one
\* counts as absent) and the credential set; generate() without either
\* changes no session field and sends no request.
C9_GenerateNeedsImageAndCredential ==
    [][ /\ Sends => Truthy(originalImageBase64) /\ apiKeySet
        /\ (last'.op = "generate" /\ (~Truthy(originalImageBase64) \/ ~apiKeySet)) =>
              UNCHANGED <<session, requests>>
      ]_vars

C9_ClickedWithoutEncodedImage ==
    /\ last.op = "generate"
    /\ GenerateButton
    /\ originalImageBase64 = Null
    /\ InFlight = 0

\* C10: right after upload(file) is accepted, from whatever status, the
\* generated image and the error message are null.
C10_UploadClearsResultAndError ==
    last.op = "upload" => generatedImage = Null /\ errorMsg = Null

C10_UploadOverResult ==
    last.op = "upload" /\ last.preGen /\ last.pre = "success"

\* The step taken last was the continuation of handleGenerate.
Settled == last.op = "generateSettled"

\* What generateExpandedImage gave the continuation taken last.
SettledResult == generateExpandedImage(last.req.data, last.req.ratio, last.resp)

\* C11: a failure whose message contains the marker ends in status error with
\* the credential unset and the "select your key again" message; a failure
\* without the marker leaves the credential state as it was.
C11_MarkerDemotesCredential ==
    (Settled /\ ~SettledResult.ok) =>
        IF Includes(SettledResult.message, Marker)
        THEN status = "error" /\ ~apiKeySet /\ errorMsg = Str(KeyIssueMsg)
        ELSE status = "error" /\ apiKeySet = last.preKey

C11_MarkerFailureWithKeySet ==
    /\ Settled
    /\ last.resp.throws
    /\ Includes(last.resp.message, Marker)
    /\ last.resp.message # Marker
    /\ last.preKey

\* No part of the response carries inline data.
NoInlineData(parts) == \A i \in 1..Len(parts) : ~HasInlineData(parts[i])

\* C12: a response with zero inline-image parts ends the generation in status
\* error with the message "No image data found in response", and the step
\* stores no generated image.
C12_NoImagePartsIsError ==
    [][ (last'.op = "generateSettled" /\ ~last'.resp.throws
            /\ NoInlineData(last'.resp.parts)) =>
            /\ status' = "error"
            /\ errorMsg' = Str(NoImageMsg)
            /\ generatedImage' = generatedImage ]_vars

C12_SettledWithTextOnly ==
    /\ Settled
    /\ ~last.resp.throws
    /\ last.resp.parts = <<TextPart>>
    /\ last.pre = "generating"

\* The step is a continuation of handleGenerate that ends in its catch block.
FailedStep ==
    /\ last'.op = "generateSettled"
    /\ ~generateExpandedImage(last'.req.data, last'.req.ratio, last'.resp).ok

\* C13: a failed generation changes only status and error message (and the
\* credential in the marker case); the encoded image and the ratio are those
\* the request was built from; and with the credential still set the ratio
\* buttons and the Generate button are there to be used without an upload.
C13_FailureKeepsSessionUsable ==
    [][ FailedStep =>
            /\ UNCHANGED <<originalImage, originalImageBase64, selectedRatio,
                           generatedImage>>
            /\ apiKeySet' = apiKeySet \/ Includes(last'.resp.message, Marker)
            /\ originalImageBase64' = last'.req.data
            /\ selectedRatio' = last'.req.ratio
            /\ apiKeySet' => (RatioButtons' /\ GenerateButton')
      ]_vars

\* Some control of the page takes a user action: the key button of the gate
\* screen, the file input, Reset, Generate, or the result's buttons.
UserActionAccepted ==
    \/ GateScreen /\ aistudio
    \/ FileInput
    \/ ResetButton
    \/ GenerateButton
    \/ ResultSection

\* C14: provided the remote call eventually returns or fails, a session whose
\* status is generating eventually has status success, error or idle; and in
\* every state with status error some user action is accepted.
C14_GenerationResolves ==
    /\ (status = "generating") ~> (status \in {"success", "error", "idle"})
    /\ [](status = "error" => UserActionAccepted)

C14_FailureResolvedGenerating ==
    /\ Settled
    /\ last.pre = "generating"
    /\ status = "error"
    /\ InFlight = 0

\* C15: "Try Different Ratio" is taken only in status success; it clears the
\* generated image, leaves the original image, the encoded image and the
\* ratio as they are, and ends where, as after a completed upload, there is an
\* encoded image and the ratio buttons and the Generate button are offered.
C15_DiscardOnlyInSuccess ==
    [][ last'.op = "discardResult" =>
            /\ status = "success"
            /\ generatedImage' = Null
            /\ UNCHANGED <<originalImage, originalImageBase64, selectedRatio>>
            /\ Truthy(originalImageBase64')
            /\ RatioButtons'
            /\ GenerateButton'
      ]_vars

\* C16: a ratio button is taken only when status is not generating, and the
\* step changes nothing but the selected ratio: generated image, status,
\* original and encoded image stay and no request is sent.
C16_SelectRatioChangesOnlyRatio ==
    [][ last'.op = "selectRatio" =>
            /\ status # "generating"
            /\ UNCHANGED <<generatedImage, status, originalImage,
                           originalImageBase64, errorMsg, apiKeySet, requests>>
      ]_vars

C16_RatioChangedOverResult ==
    /\ last.op = "selectRatio"
    /\ last.preGen
    /\ generatedImage # Null
    /\ selectedRatio # PORTRAIT

\* The position of the first part that carries inline data.
FirstInlineData(parts) ==
    CHOOSE i \in 1..Len(parts) :
        /\ HasInlineData(parts[i])
        /\ \A j \in 1..(i - 1) : ~HasInlineData(parts[j])

\* C17: when the response has a part with inline data, the generation ends in
\* status success and the generated image is the image/png data URI of the
\* first such part in response order.
C17_FirstImagePartIsResult ==
    (Settled /\ ~last.resp.throws /\ ~NoInlineData(last.resp.parts)) =>
        /\ status = "success"
        /\ generatedImage =
              Str(<<"data:image/png;base64,">>
                  \o last.resp.parts[FirstInlineData(last.resp.parts)].inlineData.data)

C17_SettledWithTextThenTwoImages ==
    /\ Settled
    /\ ~last.resp.throws
    /\ Len(last.resp.parts) = 3
    /\ ~HasInlineData(last.resp.parts[1])
    /\ generatedImage = Str(<<"data:image/png;base64,", "Q", "Q", "=", "=">>)

\* The value of a base64 character, -1 for any other character.
B64Index(c) ==
    IF \E i \in 1..64 : B64[i] = c
    THEN (CHOOSE i \in 1..64 : B64[i] = c) - 1
    ELSE -1

\* Base64 decoding (RFC 4648): four characters to three bytes, "=" padding
\* in the last group only; anything else is not base64.
RECURSIVE Base64Decode(_)
Base64Decode(chars) ==
    IF chars = <<>> THEN [ok |-> TRUE, bytes |-> <<>>]
    ELSE IF Len(chars) < 4 THEN [ok |-> FALSE]
    ELSE
        LET a == B64Index(chars[1])
            b == B64Index(chars[2])
            c == B64Index(chars[3])
            d == B64Index(chars[4])
            rest == Base64Decode(SubSeq(chars, 5, Len(chars)))
        IN  IF a < 0 \/ b < 0 THEN [ok |-> FALSE]
            ELSE IF chars[3] = "=" THEN
                IF chars[4] = "=" /\ Len(chars) = 4 /\ b % 16 = 0
                THEN [ok |-> TRUE, bytes |-> <<a * 4 + b \div 16>>]
                ELSE [ok |-> FALSE]
            ELSE IF c < 0 THEN [ok |-> FALSE]
            ELSE IF chars[4] = "=" THEN
                IF Len(chars) = 4 /\ c % 4 = 0
                THEN [ok |-> TRUE,
                      bytes |-> <<a * 4 + b \div 16, (b % 16) * 16 + c \div 4>>]
                ELSE [ok |-> FALSE]
            ELSE IF d < 0 \/ ~rest.ok THEN [ok |-> FALSE]
            ELSE [ok |-> TRUE,
                  bytes |-> <<a * 4 + b \div 16, (b % 16) * 16 + c \div 4,
                              (c % 4) * 64 + d>> \o rest.bytes]

\* C18: for a readable blob, the string the codec resolved with, stored as the
\* encoded image, is base64 without the data-URI prefix and decodes to exactly
\* the bytes of the blob.
C18_DecodeGivesBytes ==
    (last.op = "uploadSettled" /\ originalImage.url.blob.readable) =>
        /\ originalImageBase64 \notin {Null, Undefined}
        /\ Base64Decode(originalImageBase64.str) =
              [ok |-> TRUE, bytes |-> originalImage.url.blob.bytes]

C18_TwoBytesEncodedWithPadding ==
    /\ last.op = "uploadSettled"
    /\ originalImage.url.blob.readable
    /\ originalImage.url.blob.bytes = <<255, 0>>
    /\ originalImageBase64 = Str(<<"/", "w", "A", "=">>)

\* C19: when a generated image is stored, the request that produced it was
\* built from the encoded image and the ratio the session holds at that
\* moment.
C19_ResultIsOfCurrentInputs ==
    (Settled /\ SettledResult.ok) =>
        /\ generatedImage = SettledResult.value
        /\ last.req.data = originalImageBase64
        /\ last.req.ratio = selectedRatio

\* C20: status is generating exactly when a request is in flight.
C20_GeneratingIffInFlight ==
    (status = "generating") <=> (InFlight > 0)

\* The step is a continuation of handleGenerate whose error carries the marker.
MarkerFailureStep ==
    /\ FailedStep
    /\ Includes(generateExpandedImage(last'.req.data, last'.req.ratio,
                                      last'.resp).message, Marker)

\* C21: a credential that is set is unset only by a generation failing with
\* the marker.  (A credential set while the start-up check is still pending
\* was set by the selection flow, so this covers the check resolving late
\* with "no credential".)
C21_CredentialUnsetOnlyByMarker ==
    [][ (apiKeySet /\ ~apiKeySet') => MarkerFailureStep ]_vars

\* C22: right after a reset no object URL created by the session is live, and
\* right after an upload at most the URL of that upload is live.
C22_ObjectUrlsReleased ==
    /\ last.op = "reset" => objectUrls = {}
    /\ last.op = "upload" => objectUrls \subseteq {originalImage.url.id}
=============================================================================
